---- MODULE Spec2Model ----
(***************************************************************************)
(* A model of server.js: the webhook handlers that turn agent-transaction  *)
(* and trade-signal events into Jupiter swap orders, with the exit-amount  *)
(* reconciliation of calculateExitStrategy.                                *)
(*                                                                         *)
(* JavaScript numbers are modelled as exact rationals [n, d] (d > 0, in    *)
(* lowest terms), so a division or a floor is computed, not assumed.       *)
(* Every "await" of the source is a step boundary: an action is the code   *)
(* that runs from one response to the next request.                        *)
(***************************************************************************)
EXTENDS Integers, Sequences, FiniteSets, TLC

\* ------------------------------------------------------------------ bounds

\* The reconciliation specification draws UI amounts from 50 and 100 * k,
\* k \in 0..MaxAmt.
MaxAmt == 15

\* The pipeline specifications draw event amounts and virtual balances from
\* k / 2, k \in 0..MaxHalves, and the wallet's raw token amount from 50 * k,
\* k \in 0..MaxHold.
MaxHalves == 2
MaxHold == 2

\* The events processed concurrently in the concurrent specification.
NumEvents == 2

\* The resolver specification lets a source report any decimals in 0..MaxDec
\* (and 255, and none).
MaxDec == 9

\* The longest balances list of the agent platform's ledger, where the lookup of
\* one token among several entries is checked.
MaxLedger == 2

\* The decimals and the amounts (in sevenths and eighths of a unit too) on which
\* the conversion to raw units is checked.
MaxConvDec == 5
MaxUnits == 5

\* ----------------------------------------------------------------- numbers

RECURSIVE GCD(_, _)
GCD(a, b) == IF b = 0 THEN a ELSE GCD(b, a % b)

Abs(x) == IF x < 0 THEN -x ELSE x

\* The rational n/d in lowest terms with a positive denominator.
Rat(n, d) ==
    LET g == GCD(Abs(n), Abs(d))
        s == IF d < 0 THEN -1 ELSE 1
    IN  [n |-> s * (n \div g), d |-> s * (d \div g)]

Zero == Rat(0, 1)
One == Rat(1, 1)

\* The product, with the common factors taken out before multiplying.
RMul(x, y) ==
    LET g1 == GCD(Abs(x.n), y.d)
        g2 == GCD(Abs(y.n), x.d)
    IN  Rat((x.n \div g1) * (y.n \div g2), (x.d \div g2) * (y.d \div g1))
RDiv(x, y) == Rat(x.n * y.d, x.d * y.n)
RSub(x, y) == Rat(x.n * y.d - y.n * x.d, x.d * y.d)
RLe(x, y) == x.n * y.d <= y.n * x.d
RLt(x, y) == x.n * y.d < y.n * x.d
RGe(x, y) == RLe(y, x)
RMin(x, y) == IF RLe(x, y) THEN x ELSE y

\* Math.floor of a rational: \div rounds towards minus infinity.
RFloor(x) == x.n \div x.d

\* Math.pow(10, k) for an integer k >= 0.
Pow10(k) == 10 ^ k

\* ------------------------------------------------------------------ tokens

SOL_MINT == "So11111111111111111111111111111111111111112"
\* An arbitrary token mint supplied by upstream events, and one whose address
\* ends with "pump".
TOKEN_MINT == "TokenMint111"
PUMP_MINT == "TokenMint222pump"

\* The decimals of each mint on chain (SOL has 9; the tokens' 2 keeps the raw
\* amounts of the model small).
ChainDecimals(mint) == IF mint = SOL_MINT THEN 9 ELSE 2

\* JavaScript's undefined, for a field a payload does not carry.
Undefined == "undefined"

\* String.prototype.toLowerCase on the symbols the model uses.
ToLower(s) ==
    CASE s = "USDC" -> "usdc"
      [] s = "Usdc" -> "usdc"
      [] s = "TOK" -> "tok"
      [] s = "PUMPY" -> "pumpy"
      [] s = "SOL" -> "sol"
      [] OTHER -> s

\* An error value: the message's fixed text and the mint it names ("" if none).
Err(msg, mint) == [msg |-> msg, mint |-> mint]

\* --------------------------------------------- findVirtualTokenBalance

\* Array.prototype.find: the index of the first element satisfying P, 0 if none.
FirstIndex(seq, P(_)) ==
    IF \E i \in 1..Len(seq) : P(seq[i])
    THEN CHOOSE i \in 1..Len(seq) : P(seq[i]) /\ \A j \in 1..(i - 1) : ~P(seq[j])
    ELSE 0

\* The lookup with the symbol match tried before the mint match.
findVirtualTokenBalanceSymbolFirst(virtualBalances, tokenMint, tokenSymbol) ==
    LET bs == virtualBalances.balances
        byMint == FirstIndex(bs, LAMBDA b : b.token = tokenMint)
        bySymbol == FirstIndex(bs, LAMBDA b : /\ tokenSymbol # Undefined
                                              /\ b.symbol # Undefined
                                              /\ ToLower(b.symbol) = ToLower(tokenSymbol))
    IN  IF bySymbol # 0 THEN [ok |-> TRUE, value |-> bs[bySymbol].balance]
        ELSE IF byMint # 0 THEN [ok |-> TRUE, value |-> bs[byMint].balance]
        ELSE [ok |-> TRUE, value |-> Zero]

\* [ok, value]: ok = FALSE when the lookup throws (b.symbol.toLowerCase() on an
\* entry without a symbol, met before a match).
findVirtualTokenBalance(virtualBalances, tokenMint, tokenSymbol) ==
    LET bs == virtualBalances.balances
        byMint == FirstIndex(bs, LAMBDA b : b.token = tokenMint)
        stop == FirstIndex(bs, LAMBDA b : \/ b.symbol = Undefined
                                          \/ ToLower(b.symbol) = ToLower(tokenSymbol))
    IN  IF byMint # 0 THEN [ok |-> TRUE, value |-> bs[byMint].balance]
        ELSE IF tokenSymbol = Undefined \/ tokenSymbol = "" \/ stop = 0
             THEN [ok |-> TRUE, value |-> Zero]
        ELSE IF bs[stop].symbol = Undefined THEN [ok |-> FALSE, value |-> Zero]
        ELSE [ok |-> TRUE, value |-> bs[stop].balance]

\* ------------------------------------------------- isExitTransaction

isExitTransaction(inputMint, outputMint) ==
    outputMint = SOL_MINT /\ inputMint # SOL_MINT

\* ------------------------------------------- calculateExitStrategy (pure part)

\* A fallback branch that sells the webhook amount whatever the wallet holds.
fallbackExitNoCap(webhookAmount, ui) ==
    [strategy |-> "FALLBACK_EXIT_WEBHOOK",
     percentageToSell |-> RDiv(webhookAmount, ui),
     amountToSell |-> webhookAmount]

\* A fallback branch comparing with < where the source compares with <=.
fallbackExitStrict(webhookAmount, ui) ==
    IF RLt(ui, webhookAmount)
    THEN [strategy |-> "FALLBACK_EXIT_ALL", percentageToSell |-> One,
          amountToSell |-> ui]
    ELSE [strategy |-> "FALLBACK_EXIT_WEBHOOK",
          percentageToSell |-> RDiv(webhookAmount, ui),
          amountToSell |-> webhookAmount]

\* Lines 372-393: the virtual balance is unavailable.
fallbackExit(webhookAmount, ui) ==
    IF RLe(ui, webhookAmount)
    THEN [strategy |-> "FALLBACK_EXIT_ALL", percentageToSell |-> One,
          amountToSell |-> ui]
    ELSE [strategy |-> "FALLBACK_EXIT_WEBHOOK",
          percentageToSell |-> RDiv(webhookAmount, ui),
          amountToSell |-> webhookAmount]

\* A partial exit that sells the webhook amount itself, not the proportion.
partialExitAbsolute(webhookAmount, virtualBalance, ui) ==
    [strategy |-> "PARTIAL_EXIT",
     percentageToSell |-> RDiv(webhookAmount, virtualBalance),
     amountToSell |-> webhookAmount]

\* Lines 410-425: the proportional exit.
partialExit(webhookAmount, virtualBalance, ui) ==
    [strategy |-> "PARTIAL_EXIT",
     percentageToSell |-> RDiv(webhookAmount, virtualBalance),
     amountToSell |-> RMul(ui, RDiv(webhookAmount, virtualBalance))]

\* Synchronised branches whose zero-virtual branch sells the requested amount.
syncedExitZeroSellsRequested(webhookAmount, virtualBalance, ui) ==
    IF virtualBalance = Zero
    THEN [strategy |-> "FULL_EXIT_ZERO_VIRTUAL",
          percentageToSell |-> RDiv(RMin(webhookAmount, ui), ui),
          amountToSell |-> RMin(webhookAmount, ui)]
    ELSE IF RGe(webhookAmount, virtualBalance)
    THEN [strategy |-> "FULL_EXIT_COMPLETE", percentageToSell |-> One,
          amountToSell |-> ui]
    ELSE partialExit(webhookAmount, virtualBalance, ui)

\* Synchronised branches with the full-exit test written > instead of >=.
syncedExitStrict(webhookAmount, virtualBalance, ui) ==
    IF virtualBalance = Zero
    THEN [strategy |-> "FULL_EXIT_ZERO_VIRTUAL", percentageToSell |-> One,
          amountToSell |-> ui]
    ELSE IF RLt(virtualBalance, webhookAmount)
    THEN [strategy |-> "FULL_EXIT_COMPLETE", percentageToSell |-> One,
          amountToSell |-> ui]
    ELSE partialExit(webhookAmount, virtualBalance, ui)

\* Lines 394-425: the virtual balance was fetched.
syncedExit(webhookAmount, virtualBalance, ui) ==
    IF virtualBalance = Zero
    THEN [strategy |-> "FULL_EXIT_ZERO_VIRTUAL", percentageToSell |-> One,
          amountToSell |-> ui]
    ELSE IF RGe(webhookAmount, virtualBalance)
    THEN [strategy |-> "FULL_EXIT_COMPLETE", percentageToSell |-> One,
          amountToSell |-> ui]
    ELSE partialExit(webhookAmount, virtualBalance, ui)

\* A selection that trusts virtualBalance = 0 ("set to zero to trigger fallback
\* logic") and forgets the fetch flag.
selectExitNoFlag(webhookAmount, virtualBalance, fetchSuccess, ui) ==
    syncedExit(webhookAmount, virtualBalance, ui)

\* Lines 368-425: the branch taken.
selectExit(webhookAmount, virtualBalance, fetchSuccess, ui) ==
    IF ~fetchSuccess
    THEN fallbackExit(webhookAmount, ui)
    ELSE syncedExit(webhookAmount, virtualBalance, ui)

\* The conversion rounding to the nearest integer (Math.round).
toLamportsRounded(amount, decimals) ==
    LET x == RMul(amount, Rat(Pow10(decimals), 1))
    IN  (2 * x.n + x.d) \div (2 * x.d)

\* The conversion rounding up instead of down.
toLamportsCeiling(amount, decimals) ==
    -RFloor(RMul(Rat(-amount.n, amount.d), Rat(Pow10(decimals), 1)))

\* Line 428: Math.floor(amountToSell * Math.pow(10, decimals)).
toLamports(amount, decimals) == RFloor(RMul(amount, Rat(Pow10(decimals), 1)))

\* ------------------------------------------------------- JavaScript values

\* A number that may be undefined or NaN: an integer is [t |-> "int", v |-> k].
JInt(k) == [t |-> "int", v |-> k]
JUndef == [t |-> "undefined", v |-> 0]
JNaN == [t |-> "NaN", v |-> 0]

\* An event field holding a rational, or absent (d = 0).
NoNum == [n |-> 0, d |-> 0]
Truthy(x) == x.d # 0 /\ x.n # 0

\* Math.floor(amount * Math.pow(10, decimals)) with a decimals value that may be
\* undefined: Math.pow(10, undefined) is NaN.
toLamportsJS(amount, decimals) ==
    IF decimals.t = "int" THEN JInt(toLamports(amount, decimals.v)) ELSE JNaN

\* mint.endsWith('pump') and symbol.toLowerCase().includes('pump').
EndsWithPump(mint) == mint \in {PUMP_MINT}
IncludesPump(symbol) == ToLower(symbol) \in {"pumpy"}

\* ------------------------------------------------------------ signTransaction

\* Lines 510-531 on the three shapes a transaction payload can have: a versioned
\* transaction, a legacy one (the versioned deserialisation throws, the legacy one
\* succeeds), and bytes that are neither (both throw).
signTransaction(transaction) ==
    CASE transaction = "versioned" -> [ok |-> TRUE, value |-> "signed-versioned"]
      [] transaction = "legacy" -> [ok |-> TRUE, value |-> "signed-legacy"]
      [] OTHER -> [ok |-> FALSE, value |-> ""]

\* ------------------------------------------- calculateExitStrategy (result)

NoPlan == [success |-> FALSE, error |-> Err("", "")]

\* calculateExitStrategy with the balance test reduced to the found flag: an
\* account that is listed with nothing in it goes on to the branches.
exitPlanFoundOnly(webhookAmount, tokenMint, virtualBalance, fetchSuccess, actualBalance) ==
    IF ~actualBalance.found
    THEN [success |-> FALSE,
          error |-> Err("No balance found for token in actual wallet", tokenMint)]
    ELSE LET b == selectExit(webhookAmount, virtualBalance, fetchSuccess,
                             actualBalance.uiAmount)
         IN [success |-> TRUE,
             strategy |-> b.strategy,
             percentageToSell |-> b.percentageToSell,
             amountToSellUI |-> b.amountToSell,
             amountInLamports |-> toLamportsJS(b.amountToSell, actualBalance.decimals),
             actualBalance |-> actualBalance.uiAmount,
             virtualBalance |-> virtualBalance,
             webhookAmount |-> webhookAmount,
             willSellAll |-> RGe(b.percentageToSell, Rat(99, 100)),
             virtualBalanceAvailable |-> fetchSuccess,
             fallbackMode |-> ~fetchSuccess]

\* Lines 363-450, after both balances are known: the value calculateExitStrategy
\* resolves to (the throw of line 365 is caught at line 452).
exitPlan(webhookAmount, tokenMint, virtualBalance, fetchSuccess, actualBalance) ==
    IF ~actualBalance.found \/ actualBalance.uiAmount = Zero
    THEN [success |-> FALSE,
          error |-> Err("No balance found for token in actual wallet", tokenMint)]
    ELSE LET b == selectExit(webhookAmount, virtualBalance, fetchSuccess,
                             actualBalance.uiAmount)
         IN [success |-> TRUE,
             strategy |-> b.strategy,
             percentageToSell |-> b.percentageToSell,
             amountToSellUI |-> b.amountToSell,
             amountInLamports |-> toLamportsJS(b.amountToSell, actualBalance.decimals),
             actualBalance |-> actualBalance.uiAmount,
             virtualBalance |-> virtualBalance,
             webhookAmount |-> webhookAmount,
             willSellAll |-> RGe(b.percentageToSell, Rat(99, 100)),
             virtualBalanceAvailable |-> fetchSuccess,
             fallbackMode |-> ~fetchSuccess]

\* ------------------------------------------------------------------- state

VARIABLES
    eventData,      \* per event: the webhook body handed to its handler
    pc,             \* per event: the await its handler is suspended at
    loc,            \* per event: the handler's local variables
    calls,          \* per event: the external calls made so far, in order
    wallet,         \* the wallet on chain: per mint, raw amount and open account
    virtualLedger   \* the agent platform's balances list

vars == <<eventData, pc, loc, calls, wallet, virtualLedger>>

Events == DOMAIN pc

Call(op, arg) == [op |-> op, arg |-> arg]

NoBalance == [amount |-> 0, uiAmount |-> Zero, decimals |-> JUndef, found |-> FALSE]
NoOrder == [transaction |-> "", requestId |-> "", inAmount |-> JUndef]
NoExec == [status |-> "", signature |-> ""]
NoResult == [kind |-> "none", success |-> FALSE]

\* The locals of a handler before it runs.
InitLocals ==
    [decMint |-> "", decRet |-> "", decResult |-> JUndef,
     decSource |-> "", decAnswer |-> JUndef,
     inputDecimals |-> JUndef, isExit |-> FALSE,
     virtualBalance |-> Zero, virtualBalanceFetchSuccess |-> FALSE,
     actualBalance |-> NoBalance, exitCalculation |-> NoPlan,
     inputMint |-> "", outputMint |-> "", inputAmountLamports |-> JUndef,
     slippageBps |-> 0, orderResponse |-> NoOrder, signedTransaction |-> "",
     executeResponse |-> NoExec, result |-> NoResult]

\* A handler's next suspension: its locals, its call log and the await it is at.
K(l, c, p) == [l |-> l, c |-> c, pc |-> p]

Go(e, k) ==
    /\ loc' = [loc EXCEPT ![e] = k.l]
    /\ calls' = [calls EXCEPT ![e] = k.c]
    /\ pc' = [pc EXCEPT ![e] = k.pc]

\* ------------------------------------------------------ handler results

\* processAgentTransaction's catch without the exit flag.
patCatchNotExit(ev, l, c, err) ==
    K([l EXCEPT !.result =
          [kind |-> "error", success |-> FALSE, transactionId |-> ev.data.id,
           isExit |-> FALSE, error |-> err, agentId |-> ev.agentId]],
      c, "done")

\* Lines 707-716: processAgentTransaction's catch.
patCatch(ev, l, c, err) ==
    K([l EXCEPT !.result =
          [kind |-> "error", success |-> FALSE, transactionId |-> ev.data.id,
           isExit |-> isExitTransaction(ev.data.input_mint, ev.data.output_mint),
           error |-> err, agentId |-> ev.agentId]],
      c, "done")

\* Lines 811-821: processTradeSignal's catch.
ptsCatch(ev, l, c, err) ==
    K([l EXCEPT !.result =
          [kind |-> "error", success |-> FALSE, signalId |-> ev.data.id,
           agentId |-> ev.agentId, tokenSymbol |-> ev.data.token_symbol,
           tokenAddress |-> ev.data.token_address, error |-> err]],
      c, "done")

handlerCatch(ev, l, c, err) ==
    IF ev.event = "agentTransactions" THEN patCatch(ev, l, c, err)
    ELSE ptsCatch(ev, l, c, err)

\* ---------------------------------------------------------------- slippage

\* The sell-side tiers with the exit test ahead of the high-risk test.
patSlippageBpsExitFirst(data, isExit) ==
    IF data.output_mint = SOL_MINT
    THEN IF isExit
         THEN 800
         ELSE IF EndsWithPump(data.input_mint) \/ IncludesPump(data.input_symbol)
              THEN 1000 ELSE 500
    ELSE IF Truthy(data.slippage)
         THEN RFloor(RMul(data.slippage, Rat(10000, 1)))
         ELSE 300

\* Lines 613-630 of processAgentTransaction.
patSlippageBps(data, isExit) ==
    IF data.output_mint = SOL_MINT
    THEN IF EndsWithPump(data.input_mint) \/ IncludesPump(data.input_symbol)
         THEN 1000
         ELSE IF isExit THEN 800 ELSE 500
    ELSE IF Truthy(data.slippage)
         THEN RFloor(RMul(data.slippage, Rat(10000, 1)))
         ELSE 300

\* Line 781 of processTradeSignal.
ptsSlippageBps(data) ==
    IF Truthy(data.slippage)
    THEN RFloor(RMul(data.slippage, Rat(10000, 1)))
    ELSE 100

\* ------------------------------------------------------------ getSwapOrder

\* Lines 462-475: the order request as sent.
orderRequest(inputMint, outputMint, amount, slippageBps) ==
    Call("order", [inputMint |-> inputMint, outputMint |-> outputMint,
                   amount |-> amount, slippageBps |-> slippageBps])

\* Lines 613-646: processAgentTransaction from the slippage choice to the order
\* request. input_symbol.toLowerCase() throws on a missing symbol unless the
\* mint test has already decided.
patRequestOrder(ev, l, c) ==
    IF ~EndsWithPump(ev.data.input_mint) /\ ev.data.input_symbol = Undefined
    THEN patCatch(ev, l, c, Err("Cannot read properties of undefined", ""))
    ELSE LET bps == patSlippageBps(ev.data, l.isExit)
         IN K([l EXCEPT !.slippageBps = bps,
                        !.inputMint = ev.data.input_mint,
                        !.outputMint = ev.data.output_mint],
              Append(c, orderRequest(ev.data.input_mint, ev.data.output_mint,
                                     l.inputAmountLamports, bps)),
              "order")

\* Lines 780-789: processTradeSignal from the slippage choice to the order request.
ptsRequestOrder(ev, l, c) ==
    LET bps == ptsSlippageBps(ev.data)
    IN K([l EXCEPT !.slippageBps = bps, !.outputMint = ev.data.token_address],
         Append(c, orderRequest(l.inputMint, ev.data.token_address,
                                l.inputAmountLamports, bps)),
         "order")

\* --------------------------------------------------- calculateExitStrategy

\* Lines 571-611 of processAgentTransaction: the plan comes back.
cesReturn(ev, l, c, plan) ==
    LET l1 == [l EXCEPT !.exitCalculation = plan]
    IN  IF ~plan.success
        THEN K([l1 EXCEPT !.result =
                   [kind |-> "exitFailed", success |-> FALSE,
                    transactionId |-> ev.data.id,
                    error |-> [msg |-> "Exit strategy calculation failed",
                               cause |-> plan.error],
                    isExit |-> TRUE]],
               c, "done")
        ELSE patRequestOrder(ev,
                 [l1 EXCEPT !.inputAmountLamports = plan.amountInLamports], c)

\* Lines 361-459: the actual balance is known.
cesAfterActual(ev, l, c, actualBalance) ==
    cesReturn(ev, [l EXCEPT !.actualBalance = actualBalance], c,
              exitPlan(ev.data.input_amount, ev.data.input_mint,
                       l.virtualBalance, l.virtualBalanceFetchSuccess,
                       actualBalance))

\* Lines 452-458: an exception inside calculateExitStrategy.
cesCatch(ev, l, c, err) ==
    cesReturn(ev, l, c, [success |-> FALSE, error |-> err])

\* ------------------------------------------------ handlers after decimals

\* Lines 554-611 of processAgentTransaction: the decimals are back.
patAfterDecimals(ev, l, c, decimals) ==
    LET l1 == [l EXCEPT !.inputDecimals = decimals]
    IN  IF l.isExit
        THEN K(l1, Append(c, Call("virtualBalance", ev.agentId)), "ces_virtual")
        ELSE patRequestOrder(ev,
                 [l1 EXCEPT !.inputAmountLamports =
                      toLamportsJS(ev.data.input_amount, decimals)], c)

\* Lines 744-789 of processTradeSignal: the decimals are back.
ptsAfterDecimals(ev, l, c, decimals) ==
    ptsRequestOrder(ev,
        [l EXCEPT !.inputAmountLamports =
             toLamportsJS(ev.data.trade_amount, decimals)], c)

\* getTokenDecimals returns to the code that awaited it: processAgentTransaction
\* (line 554), processTradeSignal (line 744), getActualTokenBalance (line 252),
\* or a direct caller.
decReturn(ev, l, c, decimals) ==
    LET l1 == [l EXCEPT !.decResult = decimals]
    IN  CASE l.decRet = "pat" -> patAfterDecimals(ev, l1, c, decimals)
          [] l.decRet = "pts" -> ptsAfterDecimals(ev, l1, c, decimals)
          [] l.decRet = "actual" ->
                cesAfterActual(ev, l1, c,
                    [amount |-> 0, uiAmount |-> Zero, decimals |-> decimals,
                     found |-> FALSE])
          [] OTHER -> K(l1, c, "done")

\* Line 321: every source failed.
defaultDecimals == JInt(6)

\* The source whose answer ends the resolution (the console.log before each
\* return: lines 285, 299, 313, 320), and the decimals field it carried.
answeredBy(l, source, d) == [l EXCEPT !.decSource = source, !.decAnswer = d]

\* ------------------------------------------------------------------ actions

\* Lines 534-554: the handler starts and asks for the input token's decimals.
processAgentTransaction(e) ==
    /\ pc[e] = "received"
    /\ eventData[e].event = "agentTransactions"
    /\ LET d == eventData[e].data
       IN Go(e, K([InitLocals EXCEPT
                      !.isExit = isExitTransaction(d.input_mint, d.output_mint),
                      !.decMint = d.input_mint, !.decRet = "pat"],
                  <<Call("tokenInfo", d.input_mint)>>, "dec1"))
    /\ UNCHANGED <<eventData, wallet, virtualLedger>>

\* Lines 720-789: the handler starts; with an amount and an input mint it asks for
\* the decimals, otherwise it trades SOL (9 decimals) and requests the order.
processTradeSignal(e) ==
    /\ pc[e] = "received"
    /\ eventData[e].event = "tradeSignals"
    /\ LET ev == eventData[e]
           d == ev.data
       IN Go(e,
             IF Truthy(d.trade_amount) /\ d.input_mint # Undefined
             THEN K([InitLocals EXCEPT !.inputMint = d.input_mint,
                                       !.decMint = d.input_mint, !.decRet = "pts"],
                    <<Call("tokenInfo", d.input_mint)>>, "dec1")
             ELSE IF Truthy(d.trade_amount)
             THEN ptsRequestOrder(ev,
                      [InitLocals EXCEPT !.inputMint = SOL_MINT,
                           !.inputAmountLamports =
                               JInt(toLamports(d.trade_amount, 9))], <<>>)
             ELSE ptsRequestOrder(ev,
                      [InitLocals EXCEPT !.inputMint = SOL_MINT,
                           !.inputAmountLamports =
                               JInt(toLamports(Rat(1, 10), 9))], <<>>))
    /\ UNCHANGED <<eventData, wallet, virtualLedger>>

\* Lines 279-290: the per-token metadata endpoint answers. A thrown fetch, a
\* non-OK response and a JSON null body all lead to the bulk list; any other OK
\* body ends the resolution with its decimals field, present or not. P is the set
\* of decimals values a body may carry.
TokenInfoResponds(e, P) ==
    /\ pc[e] = "dec1"
    /\ \/ Go(e, K(loc[e], Append(calls[e], Call("tokenList", loc[e].decMint)),
                  "dec2"))
       \/ \E d \in P :
             Go(e, decReturn(eventData[e], answeredBy(loc[e], "tokenInfo", d),
                             calls[e], d))
    /\ UNCHANGED <<eventData, wallet, virtualLedger>>

\* The bulk list as the last source: when it fails, the default is returned
\* without the account-info query.
TokenListRespondsNoRpc(e, P) ==
    /\ pc[e] = "dec2"
    /\ \/ Go(e, decReturn(eventData[e], answeredBy(loc[e], "default", JUndef),
                          calls[e], defaultDecimals))
       \/ \E d \in P :
             Go(e, decReturn(eventData[e], answeredBy(loc[e], "tokenList", d),
                             calls[e], d))
    /\ UNCHANGED <<eventData, wallet, virtualLedger>>

\* Lines 292-304: the bulk token list answers. A thrown fetch, a non-OK response,
\* a body that is no array and a list without the mint lead to the RPC query; a
\* matching entry ends the resolution with its decimals field.
TokenListResponds(e, P) ==
    /\ pc[e] = "dec2"
    /\ \/ Go(e, K(loc[e], Append(calls[e], Call("mintInfo", loc[e].decMint)),
                  "dec3"))
       \/ \E d \in P :
             Go(e, decReturn(eventData[e], answeredBy(loc[e], "tokenList", d),
                             calls[e], d))
    /\ UNCHANGED <<eventData, wallet, virtualLedger>>

\* Lines 306-321: the account-info query answers. A thrown query (or an invalid
\* key), a null value, unparsed data and a parsed body without info lead to the
\* default; parsed info ends the resolution with its decimals field.
MintInfoResponds(e, P) ==
    /\ pc[e] = "dec3"
    /\ \/ Go(e, decReturn(eventData[e], answeredBy(loc[e], "default", JUndef),
                          calls[e], defaultDecimals))
       \/ \E d \in P :
             Go(e, decReturn(eventData[e], answeredBy(loc[e], "mintInfo", d),
                             calls[e], d))
    /\ UNCHANGED <<eventData, wallet, virtualLedger>>

\* Lines 336-361: the virtual-balance request ends: it throws (transport error,
\* non-OK status, a body without balances), or answers with the ledger, in which
\* the token is looked up. Then the holdings are requested.
VirtualBalanceResponds(e) ==
    /\ pc[e] = "ces_virtual"
    /\ LET ev == eventData[e]
           found == findVirtualTokenBalance([balances |-> virtualLedger],
                        ev.data.input_mint, ev.data.input_symbol)
           c == Append(calls[e], Call("holdings", ev.data.input_mint))
       IN \/ Go(e, K([loc[e] EXCEPT !.virtualBalance = Zero,
                                    !.virtualBalanceFetchSuccess = FALSE],
                     c, "ces_actual"))
          \/ Go(e, K([loc[e] EXCEPT
                         !.virtualBalance =
                             IF found.ok THEN found.value ELSE Zero,
                         !.virtualBalanceFetchSuccess = found.ok],
                     c, "ces_actual"))
    /\ UNCHANGED <<eventData, wallet, virtualLedger>>

\* The holdings entry of a mint, as the aggregator reports the wallet.
holdingOf(mint) ==
    [amount |-> wallet[mint].amount,
     uiAmount |-> Rat(wallet[mint].amount, Pow10(ChainDecimals(mint))),
     decimals |-> JInt(ChainDecimals(mint)),
     found |-> TRUE]

\* Lines 237-275 and 361-459: the holdings request ends: it throws, or the mint
\* is listed (the plan is computed), or it is not (its decimals are resolved
\* before the empty balance is returned).
HoldingsResponds(e) ==
    /\ pc[e] = "ces_actual"
    /\ LET ev == eventData[e]
           mint == ev.data.input_mint
       IN \/ Go(e, cesCatch(ev, loc[e], calls[e],
                            Err("Jupiter API request failed", "")))
          \/ /\ wallet[mint].open
             /\ Go(e, cesAfterActual(ev, loc[e], calls[e], holdingOf(mint)))
          \/ /\ ~wallet[mint].open
             /\ Go(e, K([loc[e] EXCEPT !.decMint = mint, !.decRet = "actual"],
                        Append(calls[e], Call("tokenInfo", mint)), "dec1"))
    /\ UNCHANGED <<eventData, wallet, virtualLedger>>

\* ------------------------------------------------------- order, sign, execute

\* The requestId handed to executeSwap (lines 667 and 796), kept in a variable
\* shared by all events: the last order response received by any of them.
executeRequestIdShared(e, orderResponse) ==
    IF \E o \in Events \ {e} : loc[o].orderResponse.requestId # ""
    THEN LET o == CHOOSE o \in Events \ {e} : loc[o].orderResponse.requestId # ""
         IN loc[o].orderResponse.requestId
    ELSE orderResponse.requestId

\* The requestId handed to executeSwap (lines 667 and 796).
executeRequestId(e, orderResponse) == orderResponse.requestId

\* Lines 494-499: the execute request as sent.
executeRequest(signedTransaction, requestId) ==
    Call("execute", [signedTransaction |-> signedTransaction,
                     requestId |-> requestId])

\* processAgentTransaction waiting for another order response when one comes
\* without a transaction, instead of returning.
patNoRouteWaitsAgain(ev, l, c) == K(l, c, "order")

\* Lines 648-663: processAgentTransaction's answer to an order without a
\* transaction.
patNoRoute(ev, l, c) ==
    K([l EXCEPT !.result =
          [kind |-> "noRoute", success |-> FALSE, transactionId |-> ev.data.id,
           error |-> Err("No executable transaction from Jupiter API", ""),
           isExit |-> l.isExit]],
      c, "done")

\* The handlers without the test for a transaction in the order response: the
\* payload, present or not, is handed to signTransaction.
afterOrderUnchecked(e, ev, l, c, orderResponse) ==
    LET l1 == [l EXCEPT !.orderResponse = orderResponse]
        signed == signTransaction(orderResponse.transaction)
        c1 == Append(c, Call("sign", orderResponse.transaction))
    IN  IF ~signed.ok
        THEN handlerCatch(ev, l1, c1, Err("Error signing transaction", ""))
        ELSE K([l1 EXCEPT !.signedTransaction = signed.value],
               Append(c1, executeRequest(signed.value,
                                         executeRequestId(e, orderResponse))),
               "exec")

\* Lines 648-667 and 791-796: the order response is back; without a transaction
\* the handler gives up, otherwise it signs and submits.
afterOrder(e, ev, l, c, orderResponse) ==
    LET l1 == [l EXCEPT !.orderResponse = orderResponse]
        signed == signTransaction(orderResponse.transaction)
        c1 == Append(c, Call("sign", orderResponse.transaction))
    IN  IF orderResponse.transaction = ""
        THEN IF ev.event = "agentTransactions"
             THEN patNoRoute(ev, l1, c)
             ELSE ptsCatch(ev, l1, c,
                           Err("No transaction received from Jupiter API", ""))
        ELSE IF ~signed.ok
        THEN handlerCatch(ev, l1, c1, Err("Error signing transaction", ""))
        ELSE K([l1 EXCEPT !.signedTransaction = signed.value],
               Append(c1, executeRequest(signed.value,
                                         executeRequestId(e, orderResponse))),
               "exec")

\* Lines 475-491: the order request ends: it throws (transport error, non-OK
\* status), or answers with an order that carries a transaction payload of some
\* shape from Shapes, or none (""), and a requestId from Ids.
OrderResponds(e, Shapes, Ids) ==
    /\ pc[e] = "order"
    /\ \/ Go(e, handlerCatch(eventData[e], loc[e], calls[e],
                             Err("Jupiter API request failed", "")))
       \/ \E t \in Shapes, id \in Ids :
             Go(e, afterOrder(e, eventData[e], loc[e], calls[e],
                              [transaction |-> t, requestId |-> id,
                               inAmount |-> loc[e].inputAmountLamports]))
    /\ UNCHANGED <<eventData, wallet, virtualLedger>>

\* The jupiterRequestId of a success result (lines 674 and 804).
resultRequestId(l) == l.orderResponse.requestId

\* Lines 670-705: processAgentTransaction's success result.
patSuccess(ev, l, c, executeResponse) ==
    K([l EXCEPT !.executeResponse = executeResponse,
                !.result =
          [kind |-> "success", success |-> TRUE, transactionId |-> ev.data.id,
           isExit |-> l.isExit,
           jupiterRequestId |-> resultRequestId(l),
           executionStatus |-> executeResponse.status,
           signature |-> executeResponse.signature,
           inputAmount |-> l.orderResponse.inAmount,
           decimalsUsed |-> l.inputDecimals,
           exitStrategyInfo |-> IF l.isExit THEN l.exitCalculation ELSE NoPlan]],
      c, "done")

\* processTradeSignal's success result with the status written by the handler
\* instead of read from the response.
ptsSuccessOwnStatus(ev, l, c, executeResponse) ==
    K([l EXCEPT !.executeResponse = executeResponse,
                !.result =
          [kind |-> "success", success |-> TRUE, signalId |-> ev.data.id,
           agentId |-> ev.agentId, tokenSymbol |-> ev.data.token_symbol,
           tokenAddress |-> ev.data.token_address,
           jupiterRequestId |-> resultRequestId(l),
           executionStatus |-> "Success",
           signature |-> executeResponse.signature,
           inputAmount |-> l.orderResponse.inAmount]],
      c, "done")

\* Lines 798-810: processTradeSignal's success result.
ptsSuccess(ev, l, c, executeResponse) ==
    K([l EXCEPT !.executeResponse = executeResponse,
                !.result =
          [kind |-> "success", success |-> TRUE, signalId |-> ev.data.id,
           agentId |-> ev.agentId, tokenSymbol |-> ev.data.token_symbol,
           tokenAddress |-> ev.data.token_address,
           jupiterRequestId |-> resultRequestId(l),
           executionStatus |-> executeResponse.status,
           signature |-> executeResponse.signature,
           inputAmount |-> l.orderResponse.inAmount]],
      c, "done")

handlerSuccess(ev, l, c, executeResponse) ==
    IF ev.event = "agentTransactions" THEN patSuccess(ev, l, c, executeResponse)
    ELSE ptsSuccess(ev, l, c, executeResponse)

\* The aggregator can land a swap only if the wallet holds the input amount.
CanSettle(mint, amount) ==
    amount.t = "int" /\ amount.v > 0 /\ wallet[mint].amount >= amount.v

\* Lines 496-507 and the rest of the handler: the execute request ends: it throws,
\* or reports a failed execution, or a successful one, which takes the input
\* amount out of the wallet.
ExecuteResponds(e, Sigs) ==
    /\ pc[e] = "exec"
    /\ LET ev == eventData[e]
           l == loc[e]
       IN \/ /\ Go(e, handlerCatch(ev, l, calls[e],
                                   Err("Jupiter API request failed", "")))
             /\ UNCHANGED wallet
          \/ \E sig \in Sigs :
                /\ Go(e, handlerSuccess(ev, l, calls[e],
                                        [status |-> "Failed", signature |-> sig]))
                /\ UNCHANGED wallet
          \/ \E sig \in Sigs :
                /\ CanSettle(l.inputMint, l.inputAmountLamports)
                /\ Go(e, handlerSuccess(ev, l, calls[e],
                                        [status |-> "Success", signature |-> sig]))
                /\ wallet' = [wallet EXCEPT ![l.inputMint].amount =
                                                @ - l.inputAmountLamports.v]
    /\ UNCHANGED <<eventData, virtualLedger>>

\* ------------------------------------------------------------------ inputs

\* A webhook body for processAgentTransaction (sample payload, lines 914-928).
AgentTransaction(inputMint, inputSymbol, inputAmount, outputMint, slippage) ==
    [event |-> "agentTransactions", agentId |-> "agent-1",
     data |-> [id |-> 0, input_mint |-> inputMint, input_symbol |-> inputSymbol,
               input_amount |-> inputAmount, output_mint |-> outputMint,
               slippage |-> slippage, trade_amount |-> NoNum,
               token_address |-> Undefined, token_symbol |-> Undefined]]

\* A webhook body for processTradeSignal (sample payload, lines 929-945).
TradeSignal(tokenAddress, tradeAmount, inputMint, slippage) ==
    [event |-> "tradeSignals", agentId |-> "agent-1",
     data |-> [id |-> 0, input_mint |-> inputMint, input_symbol |-> Undefined,
               input_amount |-> NoNum, output_mint |-> Undefined,
               slippage |-> slippage, trade_amount |-> tradeAmount,
               token_address |-> tokenAddress, token_symbol |-> "TOK"]]

WithId(ev, id) == [ev EXCEPT !.data.id = id]

Halves == {Rat(k, 2) : k \in 0..MaxHalves}

\* A ledger with one entry for the token, an empty one, and one whose only entry
\* is another token without a symbol (the symbol lookup throws on it).
Ledgers(Balances) ==
    {<<>>, <<[token |-> PUMP_MINT, symbol |-> Undefined, balance |-> One]>>}
    \cup {<<[token |-> TOKEN_MINT, symbol |-> "TOK", balance |-> v]>> :
             v \in Balances}

\* A wallet with 2 SOL and a token account that is closed, or open with a raw
\* amount from Raws.
Wallets(Raws) ==
    {[m \in {SOL_MINT, TOKEN_MINT, PUMP_MINT} |->
         IF m = SOL_MINT THEN [amount |-> 2 * Pow10(9), open |-> TRUE]
         ELSE t] :
       t \in {[amount |-> 0, open |-> FALSE]}
             \cup {[amount |-> a, open |-> TRUE] : a \in Raws}}

Mints == {SOL_MINT, TOKEN_MINT, PUMP_MINT}

\* ------------------------------------------- the pipeline, one event at a time

\* The slippage hints of an event: none, 0, 0.5% (the sample payload's, line
\* 926) and 150%.
Hints == {NoNum, Zero, Rat(1, 200), Rat(3, 2)}

\* Exits of the token for each amount; sales of a token for SOL with and without
\* a symbol, a high-risk symbol, a high-risk mint and a hint; a sale of SOL for
\* SOL; purchases of the token with SOL; trade signals.
PipelineInputs ==
    {AgentTransaction(TOKEN_MINT, "TOK", a, SOL_MINT, NoNum) : a \in Halves}
    \cup {AgentTransaction(m, s, One, SOL_MINT, sl) :
             m \in {TOKEN_MINT, PUMP_MINT}, s \in {"TOK", "PUMPY", Undefined},
             sl \in {NoNum, Rat(1, 200)}}
    \cup {AgentTransaction(SOL_MINT, "SOL", Rat(1, 2), SOL_MINT, sl) :
             sl \in {NoNum, Rat(1, 200)}}
    \cup {AgentTransaction(SOL_MINT, "SOL", a, TOKEN_MINT, sl) :
             a \in Halves, sl \in Hints}
    \cup {TradeSignal(TOKEN_MINT, a, m, sl) :
             a \in {NoNum, Rat(1, 2)}, m \in {Undefined, SOL_MINT},
             sl \in Hints}

\* The decimals a metadata source may report for the mint being resolved: the
\* right ones, or none (a body without the field).
DecimalsOf(e) == {JInt(ChainDecimals(loc[e].decMint)), JUndef}

\* The transaction payloads of an order response: none, a versioned transaction,
\* a legacy one, bytes that are neither.
TxShapes == {"", "versioned", "legacy", "garbage"}

ReqIds == {"req-A", "req-B"}
Signatures == {"sig-1"}

InitHandlers(N, Inputs) ==
    /\ \E f \in [1..N -> Inputs] : eventData = [e \in 1..N |-> WithId(f[e], e)]
    /\ pc = [e \in 1..N |-> "received"]
    /\ loc = [e \in 1..N |-> InitLocals]
    /\ calls = [e \in 1..N |-> <<>>]

Init ==
    /\ InitHandlers(1, PipelineInputs)
    /\ wallet \in Wallets({50 * k : k \in 0..MaxHold})
    /\ virtualLedger \in Ledgers(Halves)

Next ==
    \/ \E e \in Events : processAgentTransaction(e)
    \/ \E e \in Events : processTradeSignal(e)
    \/ \E e \in Events : TokenInfoResponds(e, DecimalsOf(e))
    \/ \E e \in Events : TokenListResponds(e, DecimalsOf(e))
    \/ \E e \in Events : MintInfoResponds(e, DecimalsOf(e))
    \/ \E e \in Events : VirtualBalanceResponds(e)
    \/ \E e \in Events : HoldingsResponds(e)
    \/ \E e \in Events : OrderResponds(e, TxShapes, ReqIds)
    \/ \E e \in Events : ExecuteResponds(e, Signatures)

Spec == Init /\ [][Next]_vars

\* Every external call eventually returns a response or raises an error, and a
\* handler that has been invoked runs: no step of an event that can be taken is
\* put off for ever.
SpecResponsive == Init /\ [][Next]_vars /\ WF_vars(Next)

\* --------------------------------------- the reconciliation, on wide amounts

Amounts == {Rat(50, 1)} \cup {Rat(100 * k, 1) : k \in 0..MaxAmt}

\* An exit of the token for every requested amount, against every ledger and
\* every wallet; the token has 2 decimals, so a UI amount a is 100 * a raw.
InitExit ==
    /\ InitHandlers(1, {AgentTransaction(TOKEN_MINT, "TOK", w, SOL_MINT, NoNum) :
                           w \in Amounts})
    /\ wallet \in Wallets({100 * a.n : a \in Amounts})
    /\ virtualLedger \in Ledgers(Amounts)

RightDecimalsOf(e) == {JInt(ChainDecimals(loc[e].decMint))}

NextExit ==
    \/ \E e \in Events : processAgentTransaction(e)
    \/ \E e \in Events : TokenInfoResponds(e, DecimalsOf(e))
    \/ \E e \in Events : TokenListResponds(e, DecimalsOf(e))
    \/ \E e \in Events : MintInfoResponds(e, DecimalsOf(e))
    \/ \E e \in Events : VirtualBalanceResponds(e)
    \/ \E e \in Events : HoldingsResponds(e)

SpecExit == InitExit /\ [][NextExit]_vars

\* ------------------------------------------- getTokenDecimals, called directly

AnyDecimals == {JInt(d) : d \in 0..MaxDec} \cup {JInt(255), JUndef}

InitDecimals ==
    /\ eventData = [e \in 1..1 |-> AgentTransaction(TOKEN_MINT, "TOK", One,
                                                    SOL_MINT, NoNum)]
    /\ pc = [e \in 1..1 |-> "dec1"]
    /\ \E m \in Mints :
          /\ loc = [e \in 1..1 |-> [InitLocals EXCEPT !.decMint = m,
                                                      !.decRet = "unit"]]
          /\ calls = [e \in 1..1 |-> <<Call("tokenInfo", m)>>]
    /\ wallet \in Wallets({0})
    /\ virtualLedger = <<>>

NextDecimals ==
    \/ \E e \in Events : TokenInfoResponds(e, AnyDecimals)
    \/ \E e \in Events : TokenListResponds(e, AnyDecimals)
    \/ \E e \in Events : MintInfoResponds(e, AnyDecimals)

SpecDecimals == InitDecimals /\ [][NextDecimals]_vars

\* ------------------------------------- the lookup in a ledger of several entries

\* The entries of the agent platform's balances list: a token, a symbol and a
\* balance each (lines 52-72).
LedgerEntries ==
    [token : {TOKEN_MINT, PUMP_MINT}, symbol : {"TOK", "tok", "PUMPY"},
     balance : {Zero, One, Rat(2, 1)}]

\* An exit of one token held in the wallet, with or without a symbol in the event,
\* against every ledger of up to MaxLedger entries.
InitLookup ==
    /\ InitHandlers(1, {AgentTransaction(TOKEN_MINT, s, One, SOL_MINT, NoNum) :
                           s \in {"TOK", Undefined}})
    /\ wallet = [m \in Mints |-> [amount |-> IF m = SOL_MINT THEN 2 * Pow10(9)
                                             ELSE 100,
                                  open |-> TRUE]]
    /\ \E n \in 0..MaxLedger : virtualLedger \in [1..n -> LedgerEntries]

NextLookup ==
    \/ \E e \in Events : processAgentTransaction(e)
    \/ \E e \in Events : TokenInfoResponds(e, RightDecimalsOf(e))
    \/ \E e \in Events : TokenListResponds(e, RightDecimalsOf(e))
    \/ \E e \in Events : MintInfoResponds(e, RightDecimalsOf(e))
    \/ \E e \in Events : VirtualBalanceResponds(e)
    \/ \E e \in Events : HoldingsResponds(e)

SpecLookup == InitLookup /\ [][NextLookup]_vars

\* ------------------------------------------- the conversion to raw units

ConvAmounts == {Rat(k, q) : k \in 0..MaxUnits, q \in {1, 3, 7, 8}}
ConvDecimals(e) == {JInt(d) : d \in 0..MaxConvDec}

\* Purchases with SOL for every amount, converted with whatever decimals the
\* sources report for the input token, and exits of the token for every amount,
\* converted with the decimals of the wallet's entry.
InitConvert ==
    /\ InitHandlers(1, {AgentTransaction(SOL_MINT, "SOL", a, TOKEN_MINT, NoNum) :
                           a \in ConvAmounts}
                       \cup {AgentTransaction(TOKEN_MINT, "TOK", a, SOL_MINT, NoNum) :
                                a \in ConvAmounts})
    /\ wallet \in Wallets({250})
    /\ virtualLedger \in Ledgers({Rat(3, 1)})

NextConvert ==
    \/ \E e \in Events : processAgentTransaction(e)
    \/ \E e \in Events : TokenInfoResponds(e, ConvDecimals(e))
    \/ \E e \in Events : TokenListResponds(e, ConvDecimals(e))
    \/ \E e \in Events : MintInfoResponds(e, ConvDecimals(e))
    \/ \E e \in Events : VirtualBalanceResponds(e)
    \/ \E e \in Events : HoldingsResponds(e)

SpecConvert == InitConvert /\ [][NextConvert]_vars

\* ------------------------------------------------ the pipeline, concurrently

\* An exit of one token and a trade signal without an amount (0.1 SOL).
ConcurrentInputs ==
    {AgentTransaction(TOKEN_MINT, "TOK", One, SOL_MINT, NoNum),
     TradeSignal(TOKEN_MINT, NoNum, Undefined, NoNum)}

InitConcurrent ==
    /\ InitHandlers(NumEvents, ConcurrentInputs)
    /\ wallet = [m \in Mints |-> [amount |-> IF m = SOL_MINT THEN 2 * Pow10(9)
                                             ELSE 100,
                                  open |-> TRUE]]
    /\ virtualLedger = <<[token |-> TOKEN_MINT, symbol |-> "TOK",
                          balance |-> One]>>

NextConcurrent ==
    \/ \E e \in Events : processAgentTransaction(e)
    \/ \E e \in Events : processTradeSignal(e)
    \/ \E e \in Events : TokenInfoResponds(e, RightDecimalsOf(e))
    \/ \E e \in Events : TokenListResponds(e, RightDecimalsOf(e))
    \/ \E e \in Events : MintInfoResponds(e, RightDecimalsOf(e))
    \/ \E e \in Events : VirtualBalanceResponds(e)
    \/ \E e \in Events : HoldingsResponds(e)
    \/ \E e \in Events : OrderResponds(e, {"", "versioned"}, ReqIds)
    \/ \E e \in Events : ExecuteResponds(e, Signatures)

SpecConcurrent == InitConcurrent /\ [][NextConcurrent]_vars

\* ------------------------------------------------------------------ claims

Plan(e) == loc[e].exitCalculation
Requested(e) == eventData[e].data.input_amount
Actual(e) == loc[e].actualBalance.uiAmount
Fallbacks == {"FALLBACK_EXIT_ALL", "FALLBACK_EXIT_WEBHOOK"}
FullExits == {"FULL_EXIT_ZERO_VIRTUAL", "FULL_EXIT_COMPLETE"}
Amt(k) == Rat(k, 1)

\* C1. Exit plan never oversells: every plan calculateExitStrategy returns, for
\* a requested amount >= 0, a failed or successful virtual lookup and an actual
\* balance > 0, has amountToSellUI <= actualBalance, in whichever branch.
C1_NeverOversells ==
    \A e \in Events :
        Plan(e).success =>
            /\ RLt(Zero, Actual(e))
            /\ Plan(e).strategy \in Fallbacks \cup FullExits \cup {"PARTIAL_EXIT"}
            /\ RLe(Plan(e).amountToSellUI, Actual(e))

\* A fallback plan that sells the requested amount, less than the wallet holds.
C1_Witness ==
    \E e \in Events :
        /\ Plan(e).success
        /\ Plan(e).strategy = "FALLBACK_EXIT_WEBHOOK"
        /\ RLt(Zero, Plan(e).amountToSellUI)
        /\ RLt(Plan(e).amountToSellUI, Actual(e))

\* C2. Fallback precedence: when the virtual lookup failed and the actual balance
\* is positive, the plan is returned in fallback mode with a FALLBACK_* strategy;
\* when the lookup succeeded the strategy is never a FALLBACK_* one.
C2_FallbackPrecedence ==
    \A e \in Events :
        /\ (/\ loc[e].actualBalance.found
            /\ RLt(Zero, Actual(e))
            /\ ~loc[e].virtualBalanceFetchSuccess)
           => /\ Plan(e).success
              /\ Plan(e).fallbackMode
              /\ Plan(e).strategy \in Fallbacks
        /\ (Plan(e).success /\ loc[e].virtualBalanceFetchSuccess)
           => /\ ~Plan(e).fallbackMode
              /\ Plan(e).strategy \notin Fallbacks

\* The lookup threw on a ledger entry without a symbol and the plan is a
\* fallback one.
C2_Witness ==
    \E e \in Events :
        /\ virtualLedger # <<>>
        /\ virtualLedger[1].symbol = Undefined
        /\ ~loc[e].virtualBalanceFetchSuccess
        /\ Plan(e).success
        /\ Plan(e).fallbackMode
        /\ Plan(e).strategy = "FALLBACK_EXIT_WEBHOOK"

\* C3. Branch precedence after a successful lookup: FULL_EXIT_ZERO_VIRTUAL if the
\* virtual balance is 0, else FULL_EXIT_COMPLETE if requested >= virtual, else
\* PARTIAL_EXIT; both full exits sell 100%, the whole actual balance (actual 1000,
\* virtual 1200, requested 1500: FULL_EXIT_COMPLETE selling 1000; actual 1000,
\* virtual 0, requested 50: FULL_EXIT_ZERO_VIRTUAL selling 1000).
C3_BranchPrecedence ==
    \A e \in Events :
        (Plan(e).success /\ loc[e].virtualBalanceFetchSuccess) =>
            LET v == loc[e].virtualBalance
                w == Requested(e)
            IN /\ Plan(e).strategy =
                      IF v = Zero THEN "FULL_EXIT_ZERO_VIRTUAL"
                      ELSE IF RLe(v, w) THEN "FULL_EXIT_COMPLETE"
                      ELSE "PARTIAL_EXIT"
               /\ Plan(e).strategy \in FullExits =>
                      /\ Plan(e).percentageToSell = One
                      /\ Plan(e).amountToSellUI = Actual(e)
               /\ (Actual(e) = Amt(1000) /\ v = Amt(1200) /\ w = Amt(1500)) =>
                      /\ Plan(e).strategy = "FULL_EXIT_COMPLETE"
                      /\ Plan(e).amountToSellUI = Amt(1000)
               /\ (Actual(e) = Amt(1000) /\ v = Zero /\ w = Amt(50)) =>
                      /\ Plan(e).strategy = "FULL_EXIT_ZERO_VIRTUAL"
                      /\ Plan(e).amountToSellUI = Amt(1000)

\* Scenario 2: actual 1000, virtual 1200, requested 1500.
C3_Witness ==
    \E e \in Events :
        /\ Plan(e).success
        /\ loc[e].virtualBalanceFetchSuccess
        /\ Actual(e) = Amt(1000)
        /\ loc[e].virtualBalance = Amt(1200)
        /\ Requested(e) = Amt(1500)
        /\ Plan(e).strategy = "FULL_EXIT_COMPLETE"

\* C4. Fallback amounts: after a failed lookup, with actual > 0: if actual <=
\* requested the plan is FALLBACK_EXIT_ALL, 100%, selling the actual balance;
\* otherwise FALLBACK_EXIT_WEBHOOK selling the requested amount, with percentage
\* requested / actual. Either way it sells min(actual, requested).
C4_FallbackAmounts ==
    \A e \in Events :
        (Plan(e).success /\ ~loc[e].virtualBalanceFetchSuccess) =>
            LET a == Actual(e)
                w == Requested(e)
            IN /\ RLe(a, w) =>
                      /\ Plan(e).strategy = "FALLBACK_EXIT_ALL"
                      /\ Plan(e).percentageToSell = One
                      /\ Plan(e).amountToSellUI = a
               /\ ~RLe(a, w) =>
                      /\ Plan(e).strategy = "FALLBACK_EXIT_WEBHOOK"
                      /\ Plan(e).amountToSellUI = w
                      /\ Plan(e).percentageToSell = RDiv(w, a)
               /\ Plan(e).amountToSellUI = RMin(a, w)
               /\ (a = Amt(1000) /\ w = Amt(1500)) =>
                      /\ Plan(e).strategy = "FALLBACK_EXIT_ALL"
                      /\ Plan(e).amountToSellUI = Amt(1000)

\* Scenario 1: actual 1000, virtual balance unavailable, requested 1500.
C4_Witness ==
    \E e \in Events :
        /\ Plan(e).success
        /\ ~loc[e].virtualBalanceFetchSuccess
        /\ Actual(e) = Amt(1000)
        /\ Requested(e) = Amt(1500)
        /\ Plan(e).strategy = "FALLBACK_EXIT_ALL"

\* C5. Proportionality: a PARTIAL_EXIT plan has percentageToSell = requested /
\* virtual and amountToSellUI = actual * percentageToSell, so amountToSellUI /
\* actual = requested / virtual (actual 1000, virtual 800, requested 400: 0.5
\* and 500).
C5_Proportionality ==
    \A e \in Events :
        (Plan(e).success /\ Plan(e).strategy = "PARTIAL_EXIT") =>
            LET v == loc[e].virtualBalance
                w == Requested(e)
            IN /\ Plan(e).percentageToSell = RDiv(w, v)
               /\ Plan(e).amountToSellUI = RMul(Actual(e), Plan(e).percentageToSell)
               /\ RDiv(Plan(e).amountToSellUI, Actual(e)) = RDiv(w, v)
               /\ (Actual(e) = Amt(1000) /\ v = Amt(800) /\ w = Amt(400)) =>
                      /\ Plan(e).percentageToSell = Rat(1, 2)
                      /\ Plan(e).amountToSellUI = Amt(500)

\* Scenario 3: actual 1000, virtual 800, requested 400.
C5_Witness ==
    \E e \in Events :
        /\ Plan(e).success
        /\ Plan(e).strategy = "PARTIAL_EXIT"
        /\ Actual(e) = Amt(1000)
        /\ loc[e].virtualBalance = Amt(800)
        /\ Requested(e) = Amt(400)

\* The order, sign and execute calls an event has made so far, in order.
SwapOps(e) ==
    LET s == SelectSeq(calls[e], LAMBDA k : k.op \in {"order", "sign", "execute"})
    IN [i \in DOMAIN s |-> s[i].op]

\* The wallet's balance entry for the event's token came back with found = false
\* (the decimals are then resolved on behalf of getActualTokenBalance), or with
\* found = true and a zero uiAmount.
NothingHeld(e) ==
    /\ loc[e].isExit
    /\ \/ loc[e].decRet = "actual"
       \/ loc[e].actualBalance.found /\ loc[e].actualBalance.uiAmount = Zero

\* C6. Nothing to exit: once the wallet's balance entry of an exit has come back
\* with found = false or uiAmount = 0, whatever the virtual lookup gave, the event
\* never requests an order, signs or submits, and it ends with a plan that failed
\* with an error naming the token mint and a result with success = false and
\* isExit = true.
C6_NothingToExit ==
    \A e \in Events :
        NothingHeld(e) =>
            /\ SwapOps(e) = <<>>
            /\ pc[e] \in {"dec1", "dec2", "dec3", "done"}
            /\ pc[e] = "done" =>
                  /\ ~Plan(e).success
                  /\ Plan(e).error.mint = eventData[e].data.input_mint
                  /\ loc[e].result.kind = "exitFailed"
                  /\ ~loc[e].result.success
                  /\ loc[e].result.isExit
                  /\ loc[e].result.error.cause = Plan(e).error

\* Both cases have ended: an account listed with nothing in it after a successful
\* virtual lookup, or an account not listed after a failed one.
C6_Witness ==
    \E e \in Events :
        /\ pc[e] = "done"
        /\ NothingHeld(e)
        /\ loc[e].result.kind = "exitFailed"
        /\ \/ loc[e].actualBalance.found /\ loc[e].virtualBalanceFetchSuccess
              /\ loc[e].virtualBalance = One
           \/ loc[e].decRet = "actual" /\ ~loc[e].virtualBalanceFetchSuccess
              /\ loc[e].decResult = JUndef

\* An order response that carries a requestId but no transaction.
NoRoute(e) ==
    loc[e].orderResponse.requestId # "" /\ loc[e].orderResponse.transaction = ""

\* C7. No route: an event whose order response carries no transaction has ended
\* with a result with success = false and has neither signed nor submitted
\* anything; in processAgentTransaction and in processTradeSignal.
C7_NoRoute ==
    \A e \in Events :
        NoRoute(e) =>
            /\ pc[e] = "done"
            /\ ~loc[e].result.success
            /\ loc[e].result.kind \in {"noRoute", "error"}
            /\ SwapOps(e) = <<"order">>

\* An agent transaction and a trade signal have both met an order without a
\* transaction.
C7_Witness ==
    \E a, s \in Events :
        /\ eventData[a].event = "agentTransactions"
        /\ eventData[s].event = "tradeSignals"
        /\ NoRoute(a) /\ NoRoute(s)
        /\ loc[a].result.kind = "noRoute"
        /\ loc[s].result.kind = "error"

\* A prefix of the pipeline order, sign, execute.
IsPipelinePrefix(ops) ==
    /\ Len(ops) <= 3
    /\ \A i \in DOMAIN ops : ops[i] = <<"order", "sign", "execute">>[i]

\* C8. Linear no-retry pipeline: an event requests at most one order, then signs
\* at most once, then submits at most once, in that order; it signs only a
\* transaction an order returned and submits only after a successful signing; and
\* a failure at order, signing or execution ends the flow with a failure result.
C8_LinearPipeline ==
    \A e \in Events :
        LET ops == SwapOps(e)
            l == loc[e]
        IN /\ IsPipelinePrefix(ops)
           /\ pc[e] = "order" => ops = <<"order">>
           /\ pc[e] = "exec" => Len(ops) = 3
           /\ Len(ops) >= 2 => l.orderResponse.transaction # ""
           /\ Len(ops) = 3 => signTransaction(l.orderResponse.transaction).ok
           \* the order request failed, or came back without a transaction
           /\ (Len(ops) = 1 /\ pc[e] # "order") =>
                 pc[e] = "done" /\ ~l.result.success
           \* the signing failed
           /\ Len(ops) = 2 => pc[e] = "done" /\ ~l.result.success
           \* the execution failed: the request threw, or the aggregator reported
           \* the swap as failed
           /\ (Len(ops) = 3 /\ pc[e] # "exec"
                  /\ l.executeResponse.status # "Success") =>
                 pc[e] = "done" /\ ~l.result.success

\* The execute call an event has made, if any.
Submitted(e) ==
    SelectSeq(calls[e], LAMBDA k : k.op = "execute")

\* C9. requestId threading: every execution an event submits carries the requestId
\* of that event's own order response and the signature of that response's
\* transaction, and the jupiterRequestId of its success result is that requestId,
\* however the events interleave.
C9_RequestIdThreading ==
    \A e \in Events :
        /\ \A i \in DOMAIN Submitted(e) :
              /\ Submitted(e)[i].arg.requestId = loc[e].orderResponse.requestId
              /\ Submitted(e)[i].arg.signedTransaction =
                    signTransaction(loc[e].orderResponse.transaction).value
        /\ loc[e].result.kind = "success" =>
              /\ Len(Submitted(e)) = 1
              /\ loc[e].result.jupiterRequestId = Submitted(e)[1].arg.requestId

\* Two events have submitted executions for orders with different requestIds, and
\* one of them has its success result.
C9_Witness ==
    \E a, b \in Events :
        /\ a # b
        /\ Len(Submitted(a)) = 1 /\ Len(Submitted(b)) = 1
        /\ Submitted(a)[1].arg.requestId = "req-A"
        /\ Submitted(b)[1].arg.requestId = "req-B"
        /\ loc[a].result.kind = "success"
        /\ loc[a].result.jupiterRequestId = "req-A"

\* C10. getTokenDecimals always returns an integer in [0,255], whatever the three
\* sources answer: a call that has returned has returned such a value.
C10_DecimalsInRange ==
    \A e \in Events :
        pc[e] = "done" =>
            /\ loc[e].decResult.t = "int"
            /\ loc[e].decResult.v \in 0..255

\* The sources of getTokenDecimals, in the order the code consults them.
DecimalsSources == <<"tokenInfo", "tokenList", "mintInfo">>

\* The sources an event has queried so far, in order.
SourcesTried(e) == [i \in DOMAIN calls[e] |-> calls[e][i].op]

\* C11. Decimals fallback order: the sources are queried in the order per-token
\* endpoint, bulk list, account-info query, each only while the one before it has
\* not answered; the answer of the first source that has one is what is returned,
\* with no later source queried; and the default 6 is returned only after all
\* three have been queried.
C11_FallbackOrder ==
    \A e \in Events :
        LET tried == SourcesTried(e)
            n == Len(tried)
            l == loc[e]
        IN /\ n \in 1..3
           /\ \A i \in 1..n : tried[i] = DecimalsSources[i]
           /\ pc[e] = "dec1" => n = 1
           /\ pc[e] = "dec2" => n = 2
           /\ pc[e] = "dec3" => n = 3
           /\ pc[e] # "done" => l.decSource = ""
           /\ pc[e] = "done" =>
                 \/ /\ l.decSource = "default"
                    /\ n = 3
                    /\ l.decResult = JInt(6)
                 \/ /\ l.decSource = tried[n]
                    /\ l.decResult = l.decAnswer

\* The list answered with 9 after the per-token endpoint failed; and elsewhere the
\* default was returned after three queries.
C11_Witness ==
    \E e \in Events :
        /\ pc[e] = "done"
        /\ SourcesTried(e) = <<"tokenInfo", "tokenList">>
        /\ loc[e].decSource = "tokenList"
        /\ loc[e].decResult = JInt(9)

\* C12. Raw sell amount is floored and bounded: the plan's amountInLamports is the
\* largest integer not above amountToSellUI * 10^decimals, with the decimals of
\* the wallet's balance entry (whatever getTokenDecimals answered for the input
\* token), and it is never more than the raw amount of that entry.
C12_RawAmountFlooredAndBounded ==
    \A e \in Events :
        Plan(e).success =>
            LET held == loc[e].actualBalance
                raw == Plan(e).amountInLamports
                ui == Plan(e).amountToSellUI
                scale == Pow10(held.decimals.v)
            IN /\ held.decimals.t = "int"
               /\ raw.t = "int"
               /\ raw.v * ui.d <= ui.n * scale
               /\ ui.n * scale < (raw.v + 1) * ui.d
               /\ raw.v <= held.amount

\* A partial exit of a third of 100 tokens, 33.33 of them: 3333 raw units, while
\* the decimals of the input token resolved to nothing.
C12_Witness ==
    \E e \in Events :
        /\ Plan(e).success
        /\ Plan(e).strategy = "PARTIAL_EXIT"
        /\ Plan(e).amountToSellUI = Rat(100, 3)
        /\ Plan(e).amountInLamports = JInt(3333)
        /\ loc[e].inputDecimals = JUndef

\* The order requests an event has made.
Orders(e) == SelectSeq(calls[e], LAMBDA k : k.op = "order")

\* The event's input token is high-risk: its mint ends with "pump", or its symbol
\* contains "pump" in any letter case.
HighRisk(d) == d.input_mint = PUMP_MINT \/ d.input_symbol \in {"PUMPY"}

\* The event carries a slippage hint, and the hint in basis points.
HasHint(d) == d.slippage.d # 0
HintBps(d) == (d.slippage.n * 10000) \div d.slippage.d

\* C13. Sell-side slippage: an agent transaction whose output is SOL requests its
\* order with 1000 bps for a high-risk input token, else with 800 bps for an exit,
\* else with 500 bps, whatever slippage hint it carries.
C13_SellSideSlippage ==
    \A e \in Events :
        LET d == eventData[e].data
        IN (eventData[e].event = "agentTransactions" /\ d.output_mint = SOL_MINT) =>
              \A i \in DOMAIN Orders(e) :
                 Orders(e)[i].arg.slippageBps =
                    IF HighRisk(d) THEN 1000
                    ELSE IF d.input_mint # SOL_MINT THEN 800
                    ELSE 500

\* An exit of a token with an ordinary mint, a high-risk symbol and a hint has
\* requested its order with 1000 bps.
C13_Witness ==
    \E e \in Events :
        LET d == eventData[e].data
        IN /\ eventData[e].event = "agentTransactions"
           /\ d.input_mint = TOKEN_MINT /\ d.input_symbol = "PUMPY"
           /\ d.output_mint = SOL_MINT /\ HasHint(d)
           /\ loc[e].isExit
           /\ Len(Orders(e)) = 1
           /\ Orders(e)[1].arg.slippageBps = 1000

\* C14. Buy-side slippage: an agent transaction whose output is not SOL requests
\* its order with the hint in basis points whenever it carries a hint, a hint of 0
\* included, and with 300 bps only when it carries none.
C14_BuySideSlippage ==
    \A e \in Events :
        LET d == eventData[e].data
        IN (eventData[e].event = "agentTransactions" /\ d.output_mint # SOL_MINT) =>
              \A i \in DOMAIN Orders(e) :
                 Orders(e)[i].arg.slippageBps =
                    IF HasHint(d) THEN HintBps(d) ELSE 300

\* C15. Trade-signal slippage: a trade signal requests its order with 100 bps when
\* it carries no hint and with the hint in basis points when it carries one; never
\* with a sell-side tier it did not ask for.
C15_TradeSignalSlippage ==
    \A e \in Events :
        LET d == eventData[e].data
        IN eventData[e].event = "tradeSignals" =>
              \A i \in DOMAIN Orders(e) :
                 Orders(e)[i].arg.slippageBps =
                    IF HasHint(d) THEN HintBps(d) ELSE 100

\* C16. Slippage range: the slippageBps of every order request lies in 0..10000.
C16_SlippageRange ==
    \A e \in Events :
        \A i \in DOMAIN Orders(e) : Orders(e)[i].arg.slippageBps \in 0..10000

\* External steps that have failed for an event. Recovered inside the flow: a
\* decimals source (the next source or the default follows) and the
\* virtual-balance request (the ledger would have had an answer).
DecimalsSourceFailed(e) == \E i \in DOMAIN calls[e] : calls[e][i].op = "tokenList"
VirtualFetchFailed(e) ==
    /\ loc[e].isExit
    /\ \E i \in DOMAIN calls[e] : calls[e][i].op = "holdings"
    /\ ~loc[e].virtualBalanceFetchSuccess
    /\ findVirtualTokenBalance([balances |-> virtualLedger],
                               eventData[e].data.input_mint,
                               eventData[e].data.input_symbol).ok

\* Not recovered: the holdings request, the order request, the signing, the
\* execute request.
ActualFetchFailed(e) ==
    /\ loc[e].isExit
    /\ pc[e] = "done"
    /\ ~Plan(e).success
    /\ Plan(e).error = Err("Jupiter API request failed", "")
OrderFailed(e) ==
    Len(Orders(e)) = 1 /\ pc[e] # "order" /\ loc[e].orderResponse = NoOrder
SigningFailed(e) == SwapOps(e) = <<"order", "sign">>
ExecuteFailed(e) ==
    Len(SwapOps(e)) = 3 /\ pc[e] # "exec" /\ loc[e].executeResponse = NoExec

\* A returned result that reports a failure: success = false, an error message,
\* and for an exit of processAgentTransaction isExit = true.
FailureResult(e) ==
    /\ loc[e].result.kind \in {"error", "exitFailed", "noRoute"}
    /\ ~loc[e].result.success
    /\ loc[e].result.error.msg # ""
    /\ (eventData[e].event = "agentTransactions" /\ loc[e].isExit) =>
          loc[e].result.isExit

\* C17, as stated. Errors become structured results: any failure of any external
\* step (decimals resolution, virtual or actual balance fetch, order request,
\* signing, execute submission) makes the handler return a result with success =
\* false and an error message, with isExit = true for exits.
C17_AnyFailureFails ==
    \A e \in Events :
        (pc[e] = "done"
            /\ (DecimalsSourceFailed(e) \/ VirtualFetchFailed(e)
                  \/ ActualFetchFailed(e) \/ OrderFailed(e)
                  \/ SigningFailed(e) \/ ExecuteFailed(e))) =>
           FailureResult(e)

\* C17, amended. A handler that has ended has returned a result; a failure of the
\* holdings request, the order request, the signing or the execute request makes
\* that result one with success = false and an error message, with isExit = true
\* for exits, and ends the handler at once. (A failed decimals source or
\* virtual-balance request is recovered and does not by itself fail the event.)
C17_ErrorsBecomeResults ==
    \A e \in Events :
        /\ pc[e] = "done" =>
              loc[e].result.kind \in {"success", "error", "exitFailed", "noRoute"}
        /\ (ActualFetchFailed(e) \/ OrderFailed(e) \/ SigningFailed(e)
               \/ ExecuteFailed(e)) =>
              pc[e] = "done" /\ FailureResult(e)

\* An exit went through a failed decimals source and a failed virtual-balance
\* request, and its execute request then failed: it returned a failure result
\* with isExit = true.
C17_Witness ==
    \E e \in Events :
        /\ DecimalsSourceFailed(e) /\ VirtualFetchFailed(e) /\ ExecuteFailed(e)
        /\ pc[e] = "done"
        /\ loc[e].result.kind = "error"
        /\ loc[e].result.isExit

\* C18. Verbatim execution result: the executionStatus and the signature of every
\* success result are the status and the signature of the execute response of the
\* same event.
C18_VerbatimExecutionResult ==
    \A e \in Events :
        loc[e].result.kind = "success" =>
            /\ loc[e].executeResponse # NoExec
            /\ loc[e].result.executionStatus = loc[e].executeResponse.status
            /\ loc[e].result.signature = loc[e].executeResponse.signature

\* A trade signal's result carries the status "Failed" and the signature of the
\* response.
C18_Witness ==
    \E e \in Events :
        /\ eventData[e].event = "tradeSignals"
        /\ loc[e].result.kind = "success"
        /\ loc[e].executeResponse = [status |-> "Failed", signature |-> "sig-1"]
        /\ loc[e].result.executionStatus = "Failed"
        /\ loc[e].result.signature = "sig-1"

\* Two symbols that differ at most in letter case.
SameSymbol(a, b) == \E c \in {{"TOK", "tok"}, {"PUMPY"}} : a \in c /\ b \in c

\* The ledger positions whose token is the event's mint, and those whose symbol is
\* the event's symbol up to letter case.
MintMatches(e) ==
    {i \in DOMAIN virtualLedger :
        virtualLedger[i].token = eventData[e].data.input_mint}
SymbolMatches(e) ==
    {i \in DOMAIN virtualLedger :
        SameSymbol(virtualLedger[i].symbol, eventData[e].data.input_symbol)}
Lowest(S) == CHOOSE i \in S : \A j \in S : i <= j

\* The virtual-balance request of an event has been answered and looked up.
LookedUp(e) ==
    /\ \E i \in DOMAIN calls[e] : calls[e][i].op = "holdings"
    /\ loc[e].virtualBalanceFetchSuccess

\* C19. Virtual-balance lookup by token: the balance found is that of the first
\* entry with the event's mint if there is one, whatever entries match the symbol;
\* otherwise that of the first entry whose symbol is the event's up to letter
\* case; otherwise 0, and then the exit of what the wallet holds is planned as
\* FULL_EXIT_ZERO_VIRTUAL, not in fallback mode.
C19_LookupByToken ==
    \A e \in Events :
        LookedUp(e) =>
            /\ loc[e].virtualBalance =
                  IF MintMatches(e) # {}
                  THEN virtualLedger[Lowest(MintMatches(e))].balance
                  ELSE IF SymbolMatches(e) # {}
                  THEN virtualLedger[Lowest(SymbolMatches(e))].balance
                  ELSE Zero
            /\ (MintMatches(e) = {} /\ SymbolMatches(e) = {} /\ Plan(e).success) =>
                  /\ Plan(e).strategy = "FULL_EXIT_ZERO_VIRTUAL"
                  /\ ~Plan(e).fallbackMode
                  /\ Plan(e).virtualBalanceAvailable

\* The second entry has the mint and the first one the symbol in another letter
\* case: the second entry's balance is found.
C19_Witness ==
    \E e \in Events :
        /\ LookedUp(e)
        /\ eventData[e].data.input_symbol = "TOK"
        /\ virtualLedger =
              <<[token |-> PUMP_MINT, symbol |-> "tok", balance |-> Rat(2, 1)],
                [token |-> TOKEN_MINT, symbol |-> "PUMPY", balance |-> One]>>
        /\ loc[e].virtualBalance = One
        /\ Plan(e).success

\* raw is floor(ui * 10^decimals): 0 <= ui - raw / 10^decimals < 10^-decimals,
\* with the denominators multiplied out.
WithinOneRawUnit(ui, decimals, raw) ==
    /\ raw * ui.d <= ui.n * Pow10(decimals)
    /\ ui.n * Pow10(decimals) < (raw + 1) * ui.d

\* C20. Unit-conversion round trip: the raw amount of every order request is
\* below the UI amount it converts by less than one raw unit and never above it,
\* for the entry amount of an event with the decimals resolved for its input
\* token, and for the amount an exit plan sells with the decimals of the wallet's
\* entry.
C20_ConversionRoundTrip ==
    \A e \in Events :
        /\ (~loc[e].isExit /\ Len(Orders(e)) = 1) =>
              /\ loc[e].inputDecimals.t = "int"
              /\ Orders(e)[1].arg.amount.t = "int"
              /\ Orders(e)[1].arg.amount.v >= 0
              /\ WithinOneRawUnit(Requested(e), loc[e].inputDecimals.v,
                                  Orders(e)[1].arg.amount.v)
        /\ (loc[e].isExit /\ Plan(e).success) =>
              /\ Plan(e).amountInLamports.t = "int"
              /\ Plan(e).amountInLamports.v >= 0
              /\ WithinOneRawUnit(Plan(e).amountToSellUI,
                                  loc[e].actualBalance.decimals.v,
                                  Plan(e).amountInLamports.v)

\* 5/7 of a unit at 3 decimals has become 714 raw units.
C20_Witness ==
    \E e \in Events :
        /\ Len(Orders(e)) = 1
        /\ Requested(e) = Rat(5, 7)
        /\ loc[e].inputDecimals = JInt(3)
        /\ Orders(e)[1].arg.amount = JInt(714)

\* The exits of a mint whose order has been requested and has not ended, and the
\* raw amounts of those orders together.
PendingExits(mint) ==
    {e \in Events : /\ loc[e].isExit
                    /\ eventData[e].data.input_mint = mint
                    /\ Len(Orders(e)) = 1
                    /\ pc[e] \in {"order", "exec"}}

RECURSIVE TotalOrdered(_)
TotalOrdered(S) ==
    IF S = {} THEN 0
    ELSE LET e == CHOOSE x \in S : TRUE
         IN Orders(e)[1].arg.amount.v + TotalOrdered(S \ {e})

\* C21. Concurrent exits do not oversell: however the exits of one mint
\* interleave, the raw amounts of the orders they have requested and not yet seen
\* end are together at most what the wallet holds of that mint.
C21_ConcurrentExitsDoNotOversell ==
    \A mint \in Mints \ {SOL_MINT} :
        TotalOrdered(PendingExits(mint)) <= wallet[mint].amount

\* C22. Event termination: when every external call is answered, every handler
\* returns a result, and once it has returned, that result stays the event's
\* result: it returns once.
C22_EventTermination ==
    /\ \A e \in 1..1 : <>(pc[e] = "done" /\ loc[e].result.kind # "none")
    /\ [][\A e \in Events :
             pc[e] = "done" => pc'[e] = "done" /\ loc'[e].result = loc[e].result]_vars

\* An exit has gone through the decimals sources, the virtual balance, the
\* holdings, the order and the execution, and has returned.
C22_Witness ==
    \E e \in Events :
        /\ pc[e] = "done"
        /\ loc[e].isExit
        /\ loc[e].result.kind = "success"
        /\ Len(calls[e]) = 8

\* The synchronised branches of a calculator without the zero-virtual branch:
\* lines 402-425 alone.
WithoutZeroVirtualBranch(webhookAmount, virtualBalance, ui) ==
    IF RGe(webhookAmount, virtualBalance)
    THEN [strategy |-> "FULL_EXIT_COMPLETE", percentageToSell |-> One,
          amountToSell |-> ui]
    ELSE [strategy |-> "PARTIAL_EXIT",
          percentageToSell |-> RDiv(webhookAmount, virtualBalance),
          amountToSell |-> RMul(ui, RDiv(webhookAmount, virtualBalance))]

\* C23. The zero-virtual branch is cosmetic: for a plan made after a successful
\* lookup, a calculator without the FULL_EXIT_ZERO_VIRTUAL branch gives the same
\* percentageToSell, amountToSellUI, amountInLamports, willSellAll and
\* fallbackMode; its strategy is FULL_EXIT_COMPLETE where the plan's is
\* FULL_EXIT_ZERO_VIRTUAL (virtual balance 0) and the plan's own otherwise.
C23_ZeroVirtualBranchCosmetic ==
    \A e \in Events :
        (Plan(e).success /\ Plan(e).virtualBalanceAvailable) =>
            LET v == loc[e].virtualBalance
                b == WithoutZeroVirtualBranch(Requested(e), v, Actual(e))
            IN /\ b.percentageToSell = Plan(e).percentageToSell
               /\ b.amountToSell = Plan(e).amountToSellUI
               /\ toLamportsJS(b.amountToSell, loc[e].actualBalance.decimals)
                     = Plan(e).amountInLamports
               /\ RGe(b.percentageToSell, Rat(99, 100)) = Plan(e).willSellAll
               /\ ~Plan(e).fallbackMode
               /\ IF v = Zero
                  THEN /\ Plan(e).strategy = "FULL_EXIT_ZERO_VIRTUAL"
                       /\ b.strategy = "FULL_EXIT_COMPLETE"
                  ELSE b.strategy = Plan(e).strategy

\* A request for 0 of a token the ledger does not hold, with 100 in the wallet.
C23_Witness ==
    \E e \in Events :
        /\ Plan(e).success /\ Plan(e).virtualBalanceAvailable
        /\ loc[e].virtualBalance = Zero
        /\ Requested(e) = Zero
        /\ Actual(e) = Amt(100)
        /\ Plan(e).strategy = "FULL_EXIT_ZERO_VIRTUAL"

\* C24. Success flag tracks execution outcome: a result has success = true only
\* if the execute endpoint reported the status "Success" for that event.
C24_SuccessTracksExecution ==
    \A e \in Events :
        loc[e].result.success =>
            /\ loc[e].executeResponse.status = "Success"
            /\ loc[e].result.executionStatus = "Success"

\* C25. Reported decimals match used decimals: the decimalsUsed of every success
\* result of processAgentTransaction is the decimals the amount was converted
\* with: those resolved for the input token for an entry, those of the wallet's
\* balance entry for an exit.
C25_ReportedDecimalsAreUsed ==
    \A e \in Events :
        (eventData[e].event = "agentTransactions"
            /\ loc[e].result.kind = "success") =>
           loc[e].result.decimalsUsed =
              IF loc[e].isExit THEN loc[e].actualBalance.decimals
              ELSE loc[e].inputDecimals

====
